---- MODULE Spec2Model ----
(***************************************************************************)
(* Model of the pen dispatcher of rnote-engine (src/pens/mod.rs): the      *)
(* PenStyle enum, the Pens struct with its serde attributes, and the       *)
(* PenBehaviour implementation of Pens (begin, motion, end, draw) together *)
(* with the queries current_style() and pen_shown().                       *)
(*                                                                         *)
(* The five tool variants (Brush, Shaper, Eraser, Selector, Tools) are     *)
(* opaque collaborators.  Each forwarded call is recorded the way a test   *)
(* double would record it: which tool field received it, which operation,  *)
(* what the tool returned, and the dispatcher fields at the moment of the  *)
(* call.                                                                   *)
(***************************************************************************)
EXTENDS Naturals, Sequences, FiniteSets, TLC

\* Number of distinct render errors a tool's draw may return.
NumErrors == 2

----------------------------------------------------------------------------
(* PenStyle                                                                *)

PenStyle == {"BrushStyle", "ShaperStyle", "EraserStyle", "SelectorStyle", "ToolsStyle"}

\* Option<PenStyle>::None
None == "None"

OptionPenStyle == PenStyle \cup {None}

PenStyleDefaultShaper == "ShaperStyle"

\* impl Default for PenStyle
PenStyleDefault == "BrushStyle"

PenStyleTagSwapped(s) ==
    CASE s = "BrushStyle"    -> "brush_style"
      [] s = "ShaperStyle"   -> "shaper_style"
      [] s = "EraserStyle"   -> "selector_style"
      [] s = "SelectorStyle" -> "selector_style"
      [] s = "ToolsStyle"    -> "tools_style"

\* #[serde(rename = "...")] on every variant of PenStyle
PenStyleTag(s) ==
    CASE s = "BrushStyle"    -> "brush_style"
      [] s = "ShaperStyle"   -> "shaper_style"
      [] s = "EraserStyle"   -> "eraser_style"
      [] s = "SelectorStyle" -> "selector_style"
      [] s = "ToolsStyle"    -> "tools_style"

PenStyleTags == {PenStyleTag(s) : s \in PenStyle}

\* derived Deserialize for PenStyle: the variant whose tag is t
PenStyleFromTag(t) == CHOOSE s \in PenStyle : PenStyleTag(s) = t

----------------------------------------------------------------------------
(* Pens                                                                    *)

\* The dispatcher-level fields of Pens.  The five tool sub-states are opaque
\* and are observed only through the calls forwarded to them.
PensValues == [style : PenStyle, style_overwrite : OptionPenStyle, pen_shown : BOOLEAN]

\* #[derive(Default)] on Pens
PensDefault == [style |-> PenStyleDefault, style_overwrite |-> None, pen_shown |-> FALSE]

\* Option::unwrap_or
unwrap_or(opt, default) == IF opt = None THEN default ELSE opt

current_styleIgnoresOverwrite(self) == self.style

\* Pens::current_style
current_style(self) == unwrap_or(self.style_overwrite, self.style)

\* Pens::pen_shown
pen_shown(self) == self.pen_shown

\* The arms of `match self.current_style()`: the tool field each arm uses.
matchArm(s) ==
    CASE s = "BrushStyle"    -> "brush"
      [] s = "ShaperStyle"   -> "shaper"
      [] s = "EraserStyle"   -> "eraser"
      [] s = "SelectorStyle" -> "selector"
      [] s = "ToolsStyle"    -> "tools"

ToolFields == {"brush", "shaper", "eraser", "selector", "tools"}

\* Return values: () of begin/motion/end, Result<(), anyhow::Error> of draw.
Unit == [kind |-> "unit", err |-> 0]
Ok == [kind |-> "ok", err |-> 0]
Err(i) == [kind |-> "err", err |-> i]
DrawResults == {Ok} \cup {Err(i) : i \in 1..NumErrors}

forwardByStyle(self, name, result) ==
    [tool |-> matchArm(self.style), op |-> name, result |-> result, at |-> self]

\* One forwarded call `self.<tool>.<name>(...)`, chosen by the match on
\* current_style(); `at` is the dispatcher as it is when the call is made.
forward(self, name, result) ==
    [tool |-> matchArm(current_style(self)), op |-> name, result |-> result, at |-> self]

beginForwardsFirst(self) ==
    LET call == forward(self, "begin", Unit)
        s1 == [self EXCEPT !.pen_shown = TRUE]
    IN  [self |-> s1, fwd |-> <<call>>, ret |-> Unit]

beginClearsOverwrite(self) ==
    LET s1 == [self EXCEPT !.pen_shown = TRUE, !.style_overwrite = None]
        call == forward(s1, "begin", Unit)
    IN  [self |-> s1, fwd |-> <<call>>, ret |-> Unit]

\* Pens::begin
begin(self) ==
    LET s1 == [self EXCEPT !.pen_shown = TRUE]
        call == forward(s1, "begin", Unit)
    IN  [self |-> s1, fwd |-> <<call>>, ret |-> Unit]

motionOnlyWhenShown(self) ==
    IF self.pen_shown
    THEN [self |-> self, fwd |-> <<forward(self, "motion", Unit)>>, ret |-> Unit]
    ELSE [self |-> self, fwd |-> <<>>, ret |-> Unit]

motionShows(self) ==
    LET s1 == [self EXCEPT !.pen_shown = TRUE]
    IN  [self |-> s1, fwd |-> <<forward(s1, "motion", Unit)>>, ret |-> Unit]

\* Pens::motion
motion(self) ==
    [self |-> self, fwd |-> <<forward(self, "motion", Unit)>>, ret |-> Unit]

endKeepsShown(self) ==
    LET call == forward(self, "end", Unit)
        s2 == [self EXCEPT !.style_overwrite = None]
    IN  [self |-> s2, fwd |-> <<call>>, ret |-> Unit]

endOnlyWhenShown(self) ==
    LET call == forward(self, "end", Unit)
        s2 == IF self.pen_shown
              THEN [self EXCEPT !.pen_shown = FALSE, !.style_overwrite = None]
              ELSE self
    IN  [self |-> s2, fwd |-> <<call>>, ret |-> Unit]

endKeepsOverwrite(self) ==
    LET call == forward(self, "end", Unit)
        s1 == [self EXCEPT !.pen_shown = FALSE]
    IN  [self |-> s1, fwd |-> <<call>>, ret |-> Unit]

endClearsFirst(self) ==
    LET s1 == [self EXCEPT !.pen_shown = FALSE]
        s2 == [s1 EXCEPT !.style_overwrite = None]
        call == forward(s2, "end", Unit)
    IN  [self |-> s2, fwd |-> <<call>>, ret |-> Unit]

\* Pens::end
end(self) ==
    LET call == forward(self, "end", Unit)
        s1 == [self EXCEPT !.pen_shown = FALSE]
        s2 == [s1 EXCEPT !.style_overwrite = None]
    IN  [self |-> s2, fwd |-> <<call>>, ret |-> Unit]

drawAlways(self, toolResult) ==
    [self |-> self, fwd |-> <<forward(self, "draw", toolResult)>>, ret |-> toolResult]

drawWrapsError(self, toolResult) ==
    IF self.pen_shown
    THEN [self |-> self, fwd |-> <<forward(self, "draw", toolResult)>>,
          ret |-> IF toolResult.kind = "err" THEN Err(1) ELSE toolResult]
    ELSE [self |-> self, fwd |-> <<>>, ret |-> Ok]

drawByStyle(self, toolResult) ==
    IF self.pen_shown
    THEN [self |-> self, fwd |-> <<forwardByStyle(self, "draw", toolResult)>>, ret |-> toolResult]
    ELSE [self |-> self, fwd |-> <<>>, ret |-> Ok]

drawRetries(self, toolResult) ==
    IF self.pen_shown
    THEN [self |-> self,
          fwd |-> IF toolResult.kind = "err"
                  THEN <<forward(self, "draw", toolResult), forward(self, "draw", toolResult)>>
                  ELSE <<forward(self, "draw", toolResult)>>,
          ret |-> toolResult]
    ELSE [self |-> self, fwd |-> <<>>, ret |-> Ok]

\* Pens::draw; toolResult is what the selected tool's draw returns.
draw(self, toolResult) ==
    IF self.pen_shown
    THEN [self |-> self, fwd |-> <<forward(self, "draw", toolResult)>>, ret |-> toolResult]
    ELSE [self |-> self, fwd |-> <<>>, ret |-> Ok]

----------------------------------------------------------------------------
(* Persistence: #[derive(Serialize, Deserialize)] with #[serde(default)]   *)

\* The fields of Pens modelled here, and those marked #[serde(skip)].
PensFields == {"style", "style_overwrite", "pen_shown"}

SerdeSkipNothing == {}

SerdeSkip == {"pen_shown"}

\* External form of one field value.
EncodeField(f, v) ==
    CASE f = "style"           -> PenStyleTag(v)
      [] f = "style_overwrite" -> IF v = None THEN "null" ELSE PenStyleTag(v)
      [] f = "pen_shown"       -> IF v THEN "true" ELSE "false"

DecodeField(f, t) ==
    CASE f = "style"           -> PenStyleFromTag(t)
      [] f = "style_overwrite" -> IF t = "null" THEN None ELSE PenStyleFromTag(t)
      [] f = "pen_shown"       -> (t = "true")

\* derived Serialize: every field that is not skipped, under its rename.
Serialize(self) == [f \in PensFields \ SerdeSkip |-> EncodeField(f, self[f])]

\* derived Deserialize with #[serde(default)]: a skipped or missing field
\* takes its value from Pens::default().
Deserialize(doc) ==
    [f \in PensFields |->
        IF f \in SerdeSkip \/ f \notin DOMAIN doc
        THEN PensDefault[f]
        ELSE DecodeField(f, doc[f])]

----------------------------------------------------------------------------
(* State                                                                   *)

VARIABLES
    pens,       \* the Pens instance
    op,         \* the operation last applied to it
    pre,        \* pens and gesture as they were before that operation
    fwd,        \* the calls that operation forwarded to tool variants
    ret,        \* what that operation returned
    query,      \* what the last current_style() query returned
    gesture,    \* begin has been called and no end since
    beginTool,  \* the tool that received the most recent begin
    endOverwrite, \* the override in force at the most recent end, NoEnd when
                \* there was no end or an override was assigned since
    unmodified, \* a gesture is in progress and neither style nor
                \* style_overwrite changed value since its begin
    ser,        \* the serialized document, NoDoc before serialization
    restored    \* the deserialized Pens, NoPens before deserialization

vars == <<pens, op, pre, fwd, ret, query, gesture, beginTool, endOverwrite,
          unmodified, ser, restored>>

NoEnd == "NoEnd"

NoDoc == [none |-> "none"]
NoPens == [none |-> "none"]

persistVars == <<ser, restored>>

Init ==
    /\ pens = PensDefault
    /\ op = "new"
    /\ pre = [pens |-> PensDefault, gesture |-> FALSE, op |-> "new", ret |-> Unit,
              endOverwrite |-> NoEnd, unmodified |-> FALSE]
    /\ fwd = <<>>
    /\ ret = Unit
    /\ query = None
    /\ gesture = FALSE
    /\ beginTool = None
    /\ endOverwrite = NoEnd
    /\ unmodified = FALSE
    /\ ser = NoDoc
    /\ restored = NoPens

\* Common part of every operation on the instance.
Apply(name, outcome) ==
    /\ op' = name
    /\ pre' = [pens |-> pens, gesture |-> gesture, op |-> op, ret |-> ret,
               endOverwrite |-> endOverwrite, unmodified |-> unmodified]
    /\ pens' = outcome.self
    /\ fwd' = outcome.fwd
    /\ ret' = outcome.ret
    /\ UNCHANGED persistVars

Begin ==
    /\ Apply("begin", begin(pens))
    /\ gesture' = TRUE
    /\ beginTool' = begin(pens).fwd[1].tool
    /\ unmodified' = TRUE
    /\ UNCHANGED <<query, endOverwrite>>

Motion ==
    /\ Apply("motion", motion(pens))
    /\ UNCHANGED <<gesture, beginTool, query, endOverwrite, unmodified>>

End ==
    /\ Apply("end", end(pens))
    /\ gesture' = FALSE
    /\ endOverwrite' = pens.style_overwrite
    /\ unmodified' = FALSE
    /\ UNCHANGED <<beginTool, query>>

Draw ==
    \E toolResult \in DrawResults :
        /\ Apply("draw", draw(pens, toolResult))
        /\ UNCHANGED <<gesture, beginTool, query, endOverwrite, unmodified>>

CurrentStyle ==
    /\ Apply("current_style", [self |-> pens, fwd |-> <<>>, ret |-> Unit])
    /\ query' = current_style(pens)
    /\ UNCHANGED <<gesture, beginTool, endOverwrite, unmodified>>

\* `style` is a pub field: assignment from outside the dispatcher.
SetStyle ==
    \E s \in PenStyle :
        /\ Apply("set_style", [self |-> [pens EXCEPT !.style = s], fwd |-> <<>>, ret |-> Unit])
        /\ unmodified' = (unmodified /\ s = pens.style)
        /\ UNCHANGED <<gesture, beginTool, query, endOverwrite>>

\* `style_overwrite` is a pub field: assignment from outside the dispatcher.
SetStyleOverwrite ==
    \E o \in OptionPenStyle :
        /\ Apply("set_style_overwrite",
                 [self |-> [pens EXCEPT !.style_overwrite = o], fwd |-> <<>>, ret |-> Unit])
        /\ unmodified' = (unmodified /\ o = pens.style_overwrite)
        /\ endOverwrite' = IF o = None THEN endOverwrite ELSE NoEnd
        /\ UNCHANGED <<gesture, beginTool, query>>

Next ==
    \/ Begin
    \/ Motion
    \/ End
    \/ Draw
    \/ CurrentStyle
    \/ SetStyle
    \/ SetStyleOverwrite

Spec == Init /\ [][Next]_vars

----------------------------------------------------------------------------
(* Round trip through serialization, for every value of Pens               *)

PersistInit ==
    /\ pens \in PensValues
    /\ op = "new"
    /\ pre = [pens |-> pens, gesture |-> pens.pen_shown, op |-> "new", ret |-> Unit,
              endOverwrite |-> NoEnd, unmodified |-> FALSE]
    /\ fwd = <<>>
    /\ ret = Unit
    /\ query = None
    /\ gesture = pens.pen_shown
    /\ beginTool = None
    /\ endOverwrite = NoEnd
    /\ unmodified = FALSE
    /\ ser = NoDoc
    /\ restored = NoPens

dispatchVars == <<pens, op, pre, fwd, ret, query, gesture, beginTool, endOverwrite, unmodified>>

SerializePens ==
    /\ ser' = Serialize(pens)
    /\ restored' = NoPens
    /\ UNCHANGED dispatchVars

DeserializePens ==
    /\ ser # NoDoc
    /\ restored' = Deserialize(ser)
    /\ UNCHANGED <<ser, dispatchVars>>

PersistNext ==
    \/ SerializePens
    \/ DeserializePens

PersistSpec == PersistInit /\ [][PersistNext]_vars

----------------------------------------------------------------------------
(* Properties                                                              *)

\* The tool variant that belongs to each style.
VariantOf ==
    [BrushStyle |-> "brush", ShaperStyle |-> "shaper", EraserStyle |-> "eraser",
     SelectorStyle |-> "selector", ToolsStyle |-> "tools"]

TypeOK ==
    /\ pens \in PensValues
    /\ pre.pens \in PensValues
    /\ Len(fwd) <= 1
    /\ \A i \in 1..Len(fwd) : fwd[i].tool \in ToolFields
    /\ ret \in DrawResults \cup {Unit}
    /\ query \in OptionPenStyle
    /\ gesture \in BOOLEAN
    /\ beginTool \in ToolFields \cup {None}

\* C1: a current_style() query returns style_overwrite when it is present
\* and style when it is absent, the result is one of the five variants, and
\* the query changes no field of Pens.
C1_CurrentStyle ==
    op = "current_style" =>
        /\ query = (IF pre.pens.style_overwrite \in PenStyle
                    THEN pre.pens.style_overwrite
                    ELSE pre.pens.style)
        /\ query \in PenStyle
        /\ pens = pre.pens
        /\ fwd = <<>>

C1_Witness ==
    /\ op = "current_style"
    /\ pre.pens.style_overwrite \in PenStyle
    /\ pre.pens.style_overwrite # pre.pens.style
    /\ query = pre.pens.style_overwrite

\* C2: pen_shown() is true exactly when begin has been called and no end
\* has been called since the most recent begin.
C2_ShownIffGesture == pen_shown(pens) <=> gesture

\* a motion, a draw, a repeated begin or a style change inside a gesture
C2_Witness ==
    /\ pen_shown(pens)
    /\ pre.gesture
    /\ op \in {"motion", "draw", "begin", "set_style", "set_style_overwrite"}

\* C3: after begin, pen_shown() is true whatever the state before, and the
\* flag is already set when the call is forwarded to the tool variant.
C3_BeginShows ==
    op = "begin" =>
        /\ pen_shown(pens)
        /\ Len(fwd) = 1
        /\ pen_shown(fwd[1].at)

C3_Witness ==
    /\ op = "begin"
    /\ ~pen_shown(pre.pens)
    /\ pre.pens.style_overwrite # None
    /\ pen_shown(pens)

\* C4: after end, pen_shown() is false and style_overwrite is absent,
\* whatever they were before, also when no begin preceded.
C4_EndResets ==
    op = "end" => (~pen_shown(pens) /\ pens.style_overwrite = None)

C4_Witness ==
    /\ op = "end"
    /\ ~pre.gesture
    /\ pre.pens.style_overwrite # None
    /\ pens.style_overwrite = None

\* C5: draw while pen_shown() is false returns success and forwards no call
\* to any tool variant.
C5_DrawHidden ==
    (op = "draw" /\ ~pen_shown(pre.pens)) => (ret = Ok /\ fwd = <<>>)

C5_Witness ==
    /\ op = "draw"
    /\ ~pen_shown(pre.pens)
    /\ pre.pens.style_overwrite # None
    /\ ret = Ok

\* C6: draw while pen_shown() is true forwards exactly one draw, to the
\* variant of current_style() at the time of the draw, and returns that
\* variant's result unchanged.
C6_DrawShown ==
    (op = "draw" /\ pen_shown(pre.pens)) =>
        /\ Len(fwd) = 1
        /\ fwd[1].op = "draw"
        /\ fwd[1].tool = VariantOf[IF pre.pens.style_overwrite \in PenStyle
                                   THEN pre.pens.style_overwrite
                                   ELSE pre.pens.style]
        /\ ret = fwd[1].result
        /\ ret \in DrawResults

\* a draw that fails with the second error, on a variant other than the one
\* that received begin
C6_Witness ==
    /\ op = "draw"
    /\ pen_shown(pre.pens)
    /\ Len(fwd) = 1
    /\ fwd[1].tool # beginTool
    /\ fwd[1].result = Err(NumErrors)
    /\ ret = Err(NumErrors)

\* C7: every begin, motion and end is forwarded to exactly one variant, the
\* one of the effective style at that call, under the same operation name,
\* whether or not a gesture is in progress.
C7_ForwardOne ==
    op \in {"begin", "motion", "end"} =>
        /\ Len(fwd) = 1
        /\ fwd[1].op = op
        /\ fwd[1].tool = VariantOf[IF pre.pens.style_overwrite \in PenStyle
                                   THEN pre.pens.style_overwrite
                                   ELSE pre.pens.style]
        /\ fwd[1].at.style = pre.pens.style
        /\ fwd[1].at.style_overwrite = pre.pens.style_overwrite

C7_Witness ==
    /\ op \in {"motion", "end"}
    /\ ~pen_shown(pre.pens)
    /\ ~pre.gesture
    /\ Len(fwd) = 1
    /\ fwd[1].tool = "selector"

C9_OverwriteNotPersisted ==
    restored # NoPens => restored.style_overwrite = None

\* C10: serializing any Pens value and deserializing the result yields the
\* same style and pen_shown = false, also when pen_shown was true.
C10_RoundTrip ==
    restored # NoPens =>
        /\ restored.style = pens.style
        /\ pen_shown(restored) = FALSE

C10_Witness ==
    /\ restored # NoPens
    /\ pen_shown(pens)
    /\ pens.style = "SelectorStyle"
    /\ restored.style = "SelectorStyle"
    /\ ~pen_shown(restored)

\* C11: a default-constructed Pens has style = Brush, no style_overwrite and
\* pen_shown = false, its effective style is Brush, and a draw on it
\* forwards to no tool variant.
C11_Default ==
    /\ op = "new" =>
        /\ pens.style = "BrushStyle"
        /\ pens.style_overwrite = None
        /\ ~pen_shown(pens)
        /\ current_style(pens) = "BrushStyle"
    /\ (op = "draw" /\ pre.op = "new") => (fwd = <<>> /\ ret = Ok)

C11_Witness ==
    /\ op = "draw"
    /\ pre.op = "new"
    /\ pre.pens = [style |-> "BrushStyle", style_overwrite |-> None, pen_shown |-> FALSE]
    /\ fwd = <<>>

\* C12: after an end, as long as no override is assigned again, the override
\* stays absent and every begin, motion, end and draw is forwarded under
\* style, whatever override was in force at that end.
C12_OverrideOneGesture ==
    /\ endOverwrite # NoEnd => (pens.style_overwrite = None /\ current_style(pens) = pens.style)
    /\ (op \in {"begin", "motion", "end", "draw"} /\ pre.endOverwrite # NoEnd) =>
        /\ pre.pens.style_overwrite = None
        /\ \A i \in 1..Len(fwd) : fwd[i].tool = VariantOf[pre.pens.style]

\* a draw in the gesture after an end that cancelled the Eraser override
C12_Witness ==
    /\ op = "draw"
    /\ pre.endOverwrite = "EraserStyle"
    /\ pre.pens.style = "BrushStyle"
    /\ Len(fwd) = 1
    /\ fwd[1].tool = "brush"

\* C13: the five variants of PenStyle serialize to the five pairwise
\* distinct tags brush_style, shaper_style, eraser_style, selector_style,
\* tools_style, and deserializing a variant's tag yields that variant.
C13_TagRoundTrip ==
    LET Tag == [BrushStyle |-> "brush_style", ShaperStyle |-> "shaper_style",
                EraserStyle |-> "eraser_style", SelectorStyle |-> "selector_style",
                ToolsStyle |-> "tools_style"]
    IN  /\ \A s \in PenStyle : PenStyleFromTag(PenStyleTag(s)) = s
        /\ \A s, t \in PenStyle : s # t => PenStyleTag(s) # PenStyleTag(t)
        /\ Cardinality(PenStyleTags) = 5
        /\ ser # NoDoc =>
            /\ ser.style = Tag[pens.style]
            /\ pens.style_overwrite \in PenStyle =>
                   ser.style_overwrite = Tag[pens.style_overwrite]
        /\ restored # NoPens => DecodeField("style", ser.style) = pens.style

C13_Witness ==
    /\ restored # NoPens
    /\ pens.style = "EraserStyle"
    /\ ser.style = "eraser_style"
    /\ restored.style = "EraserStyle"

\* C14: an end called with style_overwrite = X present and style = Y, X # Y,
\* is forwarded to X's end and not to Y's; the call is made while the
\* override and pen_shown still have their old values, and they are reset
\* only afterwards.
C14_EndForwardsThenClears ==
    (/\ op = "end"
     /\ pre.pens.style_overwrite \in PenStyle
     /\ pre.pens.style_overwrite # pre.pens.style)
    =>
        /\ Len(fwd) = 1
        /\ fwd[1].op = "end"
        /\ fwd[1].tool = VariantOf[pre.pens.style_overwrite]
        /\ fwd[1].tool # VariantOf[pre.pens.style]
        /\ fwd[1].at = pre.pens
        /\ ~pen_shown(pens)
        /\ pens.style_overwrite = None

C14_Witness ==
    /\ op = "end"
    /\ pen_shown(pre.pens)
    /\ pre.pens.style_overwrite = "ToolsStyle"
    /\ pre.pens.style = "ShaperStyle"
    /\ Len(fwd) = 1
    /\ fwd[1].tool = "tools"
    /\ pen_shown(fwd[1].at)
    /\ pens.style_overwrite = None

\* C15: motion leaves style, style_overwrite and pen_shown as they were; a
\* motion without a prior begin leaves pen_shown false, and a draw that
\* follows it forwards to no variant.
C15_MotionFrame ==
    /\ op = "motion" =>
        /\ pens.style = pre.pens.style
        /\ pens.style_overwrite = pre.pens.style_overwrite
        /\ pen_shown(pens) = pen_shown(pre.pens)
        /\ ~pre.gesture => ~pen_shown(pens)
    /\ (op = "draw" /\ pre.op = "motion" /\ ~pre.gesture) => (fwd = <<>> /\ ret = Ok)

C15_Witness ==
    /\ op = "draw"
    /\ pre.op = "motion"
    /\ ~pre.gesture
    /\ beginTool = None
    /\ fwd = <<>>

\* C16: in a gesture in which neither style nor style_overwrite is modified
\* after begin, every motion, every draw and the end are forwarded to the
\* tool variant that received begin, the one of the effective style at
\* begin.
C16_StableGesture ==
    /\ (op = "begin") =>
        (Len(fwd) = 1 /\ fwd[1].tool = beginTool /\ beginTool = VariantOf[current_style(pre.pens)])
    /\ (op \in {"motion", "draw", "end"} /\ pre.unmodified) =>
        /\ Len(fwd) = 1
        /\ fwd[1].tool = beginTool

\* the end of an unmodified gesture begun under an override
C16_Witness ==
    /\ op = "end"
    /\ pre.unmodified
    /\ pre.op = "draw"
    /\ pre.pens.style_overwrite = "SelectorStyle"
    /\ pre.pens.style = "BrushStyle"
    /\ beginTool = "selector"
    /\ fwd[1].tool = "selector"

\* C17: draw leaves style, style_overwrite and pen_shown unchanged and
\* forwards at most one variant draw, whether that draw succeeds or fails; a
\* failure is returned once, and a draw following a failed draw is
\* forwarded again.
C17_DrawNoRetry ==
    /\ op = "draw" =>
        /\ pens = pre.pens
        /\ Len(fwd) <= 1
        /\ ret.kind = "err" => (Len(fwd) = 1 /\ fwd[1].result = ret)
    /\ (op = "draw" /\ pre.op = "draw" /\ pre.ret.kind = "err") =>
        (Len(fwd) = 1 /\ fwd[1].op = "draw")

\* a successful draw right after a failed one
C17_Witness ==
    /\ op = "draw"
    /\ pre.op = "draw"
    /\ pre.ret = Err(1)
    /\ Len(fwd) = 1
    /\ ret = Ok
    /\ pen_shown(pens)

\* C18: begin changes only pen_shown, end changes only pen_shown and
\* style_overwrite, motion and draw change nothing; so style changes only
\* by an assignment from outside the dispatcher.
C18_StyleFrame ==
    /\ op = "begin" =>
        (pens.style = pre.pens.style /\ pens.style_overwrite = pre.pens.style_overwrite)
    /\ op = "end" => pens.style = pre.pens.style
    /\ op \in {"motion", "draw"} => pens = pre.pens
    /\ pens.style # pre.pens.style => op = "set_style"

C18_Witness ==
    /\ op = "begin"
    /\ pre.pens.style_overwrite = "EraserStyle"
    /\ pre.pens.style = "ToolsStyle"
    /\ pens.style_overwrite = "EraserStyle"
    /\ pens.style = "ToolsStyle"

====
